---- MODULE Spec2Model ----
(***************************************************************************)
(* Model of the WeatherXu TypeScript SDK (src/index.ts): the WeatherXu     *)
(* client, its constructor and its two asynchronous operations getWeather  *)
(* and getHistorical, run as two concurrent calls on one client instance.  *)
(*                                                                         *)
(* Conventions                                                             *)
(*  - an optional JavaScript value is a sequence: <<>> is undefined and    *)
(*    <<v>> is the value v;                                                *)
(*  - a string that ends up in the query string is a sequence of           *)
(*    one-character strings, so that the serializer works per character;   *)
(*    messages are TLA+ strings;                                           *)
(*  - a JavaScript number with at most one decimal digit is the integer    *)
(*    ten times its value (40.7 is 407, -74 is -740).                      *)
(***************************************************************************)
EXTENDS Integers, Sequences, FiniteSets, TLC

VARIABLES
    client,     \* the WeatherXu instance: construction state, config, apiKey, defaultUnits
    thrown,     \* what the constructor threw, if it threw
    requested,  \* TRUE once any outbound request has been issued through fetch
    call        \* the two calls: position, locals, request in flight, response, outcome

vars == <<client, thrown, requested, call>>

None == <<>>
Some(v) == <<v>>

\* ------------------------------------------------------------------ strings

metric == <<"m", "e", "t", "r", "i", "c">>
imperial == <<"i", "m", "p", "e", "r", "i", "a", "l">>
alerts == <<"a", "l", "e", "r", "t", "s">>
currently == <<"c", "u", "r", "r", "e", "n", "t", "l", "y">>
hourly == <<"h", "o", "u", "r", "l", "y">>
daily == <<"d", "a", "i", "l", "y">>

DigitChar == <<"0", "1", "2", "3", "4", "5", "6", "7", "8", "9">>

RECURSIVE Digits(_)
Digits(n) ==
    IF n < 10 THEN <<DigitChar[n + 1]>>
    ELSE Digits(n \div 10) \o <<DigitChar[(n % 10) + 1]>>

\* Number.prototype.toString, radix 10, for a number given in tenths.
NumberToString(n) ==
    LET a == IF n < 0 THEN -n ELSE n
        f == a % 10
    IN (IF n < 0 THEN <<"-">> ELSE <<>>)
       \o Digits(a \div 10)
       \o (IF f = 0 THEN <<>> ELSE <<".", DigitChar[f + 1]>>)

\* Array.prototype.join(',') on an array of strings.
RECURSIVE JoinComma(_)
JoinComma(parts) ==
    IF parts = <<>> THEN <<>>
    ELSE IF Len(parts) = 1 THEN parts[1]
    ELSE parts[1] \o <<",">> \o JoinComma(Tail(parts))

\* The application/x-www-form-urlencoded byte serializer behind
\* URLSearchParams.toString(): alphanumerics and * - . _ are kept, a space
\* becomes +, every other character becomes its percent code.
PercentCode(ch) ==
    CASE ch = "," -> <<"%", "2", "C">>
      [] ch = "&" -> <<"%", "2", "6">>
      [] ch = "=" -> <<"%", "3", "D">>
      [] ch = "%" -> <<"%", "2", "5">>
      [] ch = "+" -> <<"%", "2", "B">>
      [] ch = " " -> <<"+">>
      [] OTHER -> <<ch>>

RECURSIVE EncodeComponent(_)
EncodeComponent(s) ==
    IF s = <<>> THEN <<>>
    ELSE PercentCode(Head(s)) \o EncodeComponent(Tail(s))

\* `${queryParams}`: name=value pairs joined by &.
RECURSIVE SerializeEntries(_)
SerializeEntries(entries) ==
    IF entries = <<>> THEN <<>>
    ELSE LET e == Head(entries)
             pair == EncodeComponent(e[1]) \o <<"=">> \o EncodeComponent(e[2])
         IN IF Len(entries) = 1 THEN pair
            ELSE pair \o <<"&">> \o SerializeEntries(Tail(entries))

\* ------------------------------------------------------------------- errors

\* class WeatherXuError extends Error: an undefined message leaves Error's "".
WeatherXuError(message, status, code) ==
    [name |-> "WeatherXuError",
     message |-> IF message = None THEN "" ELSE message[1],
     status |-> status,
     code |-> code]

\* An error raised by the runtime or the transport (TypeError, SyntaxError).
NativeError(name, message) ==
    [name |-> name, message |-> message, status |-> None, code |-> None]

\* ------------------------------------------------------------------- inputs

ApiKeys == {None, Some(""), Some("key-A")}
UnitsOpt == {None, Some(metric), Some(imperial)}

\* interface WeatherXuConfig
Configs == [apiKey : ApiKeys, units : UnitsOpt]

\* type WeatherParts, as the optional field of WeatherParams
PartsOpt == {None, Some(<<>>), Some(<<currently, daily>>), Some(<<daily>>)}

\* interface WeatherParams: New York with every parts/units choice, and an
\* out-of-range coordinate with the defaults.
WeatherParamsSet ==
    [lat : {407}, lon : {-740}, parts : PartsOpt, units : UnitsOpt]
    \cup [lat : {-905}, lon : {1225}, parts : {None}, units : {None}]

\* interface HistoricalParams: an ordered and a reversed time range.
HistoricalParamsSet ==
    [lat : {407}, lon : {-740}, start : {1700}, end : {1800}, units : UnitsOpt]
    \cup [lat : {-905}, lon : {1225}, start : {1800}, end : {1700}, units : {None}]

\* The bodies a response can carry: text that is not JSON, the JSON null, or
\* an object of the provider's envelope {success, data, error} with any of
\* its fields missing.
ErrorObjects ==
    {[message |-> Some("bad key"), statusCode |-> Some("401")],
     [message |-> None, statusCode |-> None]}

NoFields == [kind |-> "object", success |-> None, error |-> None, data |-> None]

Bodies ==
    {[NoFields EXCEPT !.kind = "invalid"],
     [NoFields EXCEPT !.kind = "null"],
     NoFields,
     [NoFields EXCEPT !.success = Some(TRUE), !.data = Some("forecast")],
     [NoFields EXCEPT !.success = Some(FALSE)]}
    \cup {[NoFields EXCEPT !.success = Some(FALSE), !.error = Some(e)] : e \in ErrorObjects}

StatusText(status) ==
    CASE status = 200 -> "OK"
      [] status = 404 -> "Not Found"
      [] status = 500 -> "Internal Server Error"
      [] OTHER -> ""

\* What the transport can answer: a rejection of fetch, or a response.
NetworkFailure ==
    [kind |-> "rejected", error |-> Some(NativeError("TypeError", "fetch failed")),
     status |-> 0, statusText |-> "", body |-> NoFields]

HttpResponse(status, body) ==
    [kind |-> "response", error |-> None,
     status |-> status, statusText |-> StatusText(status), body |-> body]

FetchResults ==
    {NetworkFailure}
    \cup {HttpResponse(200, b) : b \in Bodies}
    \cup {HttpResponse(404, [NoFields EXCEPT !.kind = "invalid"]),
          HttpResponse(500, [NoFields EXCEPT !.success = Some(TRUE), !.data = Some("forecast")])}

\* -------------------------------------------------------------------- state

Calls == {1, 2}

IdleCall ==
    [pc |-> "idle", op |-> "none", params |-> None, request |-> None,
     response |-> None, outcome |-> None]

Init ==
    /\ client = [state |-> "new", config |-> None, apiKey |-> None, defaultUnits |-> None]
    /\ thrown = None
    /\ requested = FALSE
    /\ call = [c \in Calls |-> IdleCall]

\* -------------------------------------------------------------- constructor

\* !config.apiKey
ApiKeyMissing_OnlyUndefined(config) == config.apiKey = None

ApiKeyMissing(config) == config.apiKey = None \/ config.apiKey[1] = ""

\* config.units || 'metric'
ResolveDefaultUnits(config) ==
    IF config.units = None THEN metric ELSE config.units[1]

constructor(config) ==
    /\ client.state = "new"
    /\ IF ApiKeyMissing(config)
       THEN /\ client' = [client EXCEPT !.state = "failed", !.config = Some(config)]
            /\ thrown' = Some(WeatherXuError(Some("API key is required"), None, None))
       ELSE /\ client' = [state |-> "ready",
                          config |-> Some(config),
                          apiKey |-> config.apiKey,
                          defaultUnits |-> Some(ResolveDefaultUnits(config))]
            /\ thrown' = None
    /\ UNCHANGED <<requested, call>>

\* ----------------------------------------------------------------- requests

weatherBaseUrl == "https://api.weatherxu.com/v1"
historicalBaseUrl == "https://historical.weatherxu.com/v1"

\* params.units || this.defaultUnits
EffectiveUnits_IgnoreOverride(units, defaultUnits) == defaultUnits

EffectiveUnits(units, defaultUnits) ==
    IF units = None THEN defaultUnits ELSE units[1]

\* ...(params.parts && { parts: params.parts.join(',') }): an array, even an
\* empty one, is truthy.
PartsEntry_SkipEmpty(parts) ==
    IF parts = None \/ parts[1] = <<>> THEN <<>>
    ELSE << <<<<"p", "a", "r", "t", "s">>, JoinComma(parts[1])>> >>

PartsEntry(parts) ==
    IF parts = None THEN <<>>
    ELSE << <<<<"p", "a", "r", "t", "s">>, JoinComma(parts[1])>> >>

\* new URLSearchParams({lat, lon, units, ...parts}) of getWeather
WeatherQueryParams(params, defaultUnits) ==
    << <<<<"l", "a", "t">>, NumberToString(params.lat)>>,
       <<<<"l", "o", "n">>, NumberToString(params.lon)>>,
       <<<<"u", "n", "i", "t", "s">>, EffectiveUnits(params.units, defaultUnits)>> >>
    \o PartsEntry(params.parts)

\* new URLSearchParams({lat, lon, start, end, units}) of getHistorical
HistoricalQueryParams(params, defaultUnits) ==
    << <<<<"l", "a", "t">>, NumberToString(params.lat)>>,
       <<<<"l", "o", "n">>, NumberToString(params.lon)>>,
       <<<<"s", "t", "a", "r", "t">>, NumberToString(params.start)>>,
       <<<<"e", "n", "d">>, NumberToString(params.end)>>,
       <<<<"u", "n", "i", "t", "s">>, EffectiveUnits(params.units, defaultUnits)>> >>

\* headers: { 'X-API-KEY': this.apiKey, 'Content-Type': 'application/json' }
RequestHeaders(apiKey) ==
    [xApiKey |-> apiKey, contentType |-> "application/json"]

\* fetch(`${this.weatherBaseUrl}/weather?${queryParams}`, {headers})
WeatherRequest(queryParams, apiKey) ==
    [base |-> weatherBaseUrl, path |-> "/weather",
     query |-> SerializeEntries(queryParams), headers |-> RequestHeaders(apiKey)]

\* fetch(`${this.historicalBaseUrl}/history?${queryParams}`, {headers})
HistoricalRequest_WeatherHost(queryParams, apiKey) ==
    [base |-> weatherBaseUrl, path |-> "/history",
     query |-> SerializeEntries(queryParams), headers |-> RequestHeaders(apiKey)]

HistoricalRequest(queryParams, apiKey) ==
    [base |-> historicalBaseUrl, path |-> "/history",
     query |-> SerializeEntries(queryParams), headers |-> RequestHeaders(apiKey)]

\* ---------------------------------------------------------------- responses

\* response.ok: the status is in the range 200-299.
ResponseOk(r) == r.status >= 200 /\ r.status <= 299

\* How an async function ends: a throw rejects its promise, a return resolves it.
Throw(e) == [kind |-> "rejected", value |-> None, error |-> Some(e)]
Return(v) == [kind |-> "resolved", value |-> Some(v), error |-> None]

\* throw new WeatherXuError(`Weather API request failed: ${response.statusText}`, response.status)
WeatherNotOk_NoStatus(r) ==
    WeatherXuError(Some("Weather API request failed: " \o r.statusText), None, None)

WeatherNotOk(r) ==
    WeatherXuError(Some("Weather API request failed: " \o r.statusText), Some(r.status), None)

\* throw new WeatherXuError(`Historical API request failed: ${response.statusText}`, response.status)
HistoricalNotOk(r) ==
    WeatherXuError(Some("Historical API request failed: " \o r.statusText), Some(r.status), None)

\* const result = await response.json(); if (!result.success) { throw ... } return result;
\* response.json() rejects with a SyntaxError on text that is not JSON, reading
\* a property of null and destructuring an undefined error are TypeErrors.
ReadEnvelope_StatusFromCode(body) ==
    IF body.kind = "invalid"
    THEN Throw(NativeError("SyntaxError", "Unexpected token < in JSON at position 0"))
    ELSE IF body.kind = "null"
    THEN Throw(NativeError("TypeError", "Cannot read properties of null (reading 'success')"))
    ELSE IF body.success # Some(TRUE)
    THEN IF body.error = None
         THEN Throw(NativeError("TypeError",
                  "Cannot destructure property 'message' of 'result.error' as it is undefined."))
         ELSE Throw(WeatherXuError(body.error[1].message, body.error[1].statusCode, None))
    ELSE Return(body)

ReadEnvelope_DataOnly(body) ==
    IF body.kind = "invalid"
    THEN Throw(NativeError("SyntaxError", "Unexpected token < in JSON at position 0"))
    ELSE IF body.kind = "null"
    THEN Throw(NativeError("TypeError", "Cannot read properties of null (reading 'success')"))
    ELSE IF body.success # Some(TRUE)
    THEN IF body.error = None
         THEN Throw(NativeError("TypeError",
                  "Cannot destructure property 'message' of 'result.error' as it is undefined."))
         ELSE Throw(WeatherXuError(body.error[1].message, None, body.error[1].statusCode))
    ELSE Return([body EXCEPT !.success = None])

ReadEnvelope(body) ==
    IF body.kind = "invalid"
    THEN Throw(NativeError("SyntaxError", "Unexpected token < in JSON at position 0"))
    ELSE IF body.kind = "null"
    THEN Throw(NativeError("TypeError", "Cannot read properties of null (reading 'success')"))
    ELSE IF body.success # Some(TRUE)
    THEN IF body.error = None
         THEN Throw(NativeError("TypeError",
                  "Cannot destructure property 'message' of 'result.error' as it is undefined."))
         ELSE Throw(WeatherXuError(body.error[1].message, None, body.error[1].statusCode))
    ELSE Return(body)

\* catch (error) of getWeather
getWeather_catch_Rethrow(o) == o

getWeather_catch_WrapAll(o) ==
    IF o.kind = "resolved" THEN o
    ELSE Throw(WeatherXuError(
             Some("Failed to fetch weather data: " \o o.error[1].message), None, None))

getWeather_catch(o) ==
    IF o.kind = "resolved" THEN o
    ELSE IF o.error[1].name = "WeatherXuError" THEN o
    ELSE Throw(WeatherXuError(
             Some("Failed to fetch weather data: " \o o.error[1].message), None, None))

\* catch (error) of getHistorical
getHistorical_catch(o) ==
    IF o.kind = "resolved" THEN o
    ELSE IF o.error[1].name = "WeatherXuError" THEN o
    ELSE Throw(WeatherXuError(
             Some("Failed to fetch historical data: " \o o.error[1].message), None, None))

\* The promise of the call settles: the frame of the call (params, the
\* request it built) is gone, its outcome is what the caller gets. The
\* response is kept next to the outcome so that they can be related.
Settled(k, r, o) ==
    [pc |-> "done", op |-> k.op, params |-> None, request |-> None,
     response |-> Some(r), outcome |-> Some(o)]

\* ------------------------------------------------------------------ actions

\* getWeather up to its first await: the query is built and fetch is called.
getWeather_SharedUnits(c, params) ==
    /\ client.state = "ready"
    /\ call[c].pc = "idle"
    /\ LET units == EffectiveUnits(params.units, client.defaultUnits[1])
           queryParams == WeatherQueryParams(params, units)
       IN /\ call' = [call EXCEPT ![c] =
                 [pc |-> "fetch", op |-> "getWeather", params |-> Some(params),
                  request |-> Some(WeatherRequest(queryParams, client.apiKey[1])),
                  response |-> None, outcome |-> None]]
          /\ client' = [client EXCEPT !.defaultUnits = Some(units)]
    /\ requested' = TRUE
    /\ UNCHANGED thrown

getWeather(c, params) ==
    /\ client.state = "ready"
    /\ call[c].pc = "idle"
    /\ LET queryParams == WeatherQueryParams(params, client.defaultUnits[1])
       IN call' = [call EXCEPT ![c] =
              [pc |-> "fetch", op |-> "getWeather", params |-> Some(params),
               request |-> Some(WeatherRequest(queryParams, client.apiKey[1])),
               response |-> None, outcome |-> None]]
    /\ requested' = TRUE
    /\ UNCHANGED <<client, thrown>>

\* getWeather resumes after `await fetch(...)` with what the transport answered.
getWeather_fetchSettled(c, r) ==
    /\ call[c].pc = "fetch"
    /\ call[c].op = "getWeather"
    /\ call' = [call EXCEPT ![c] =
           IF r.kind = "rejected"
           THEN Settled(@, r, getWeather_catch(Throw(r.error[1])))
           ELSE IF ~ResponseOk(r)
           THEN Settled(@, r, getWeather_catch(Throw(WeatherNotOk(r))))
           ELSE [@ EXCEPT !.pc = "json", !.response = Some(r)]]
    /\ UNCHANGED <<client, thrown, requested>>

\* getWeather resumes after `await response.json()`.
getWeather_jsonSettled(c) ==
    /\ call[c].pc = "json"
    /\ call[c].op = "getWeather"
    /\ call' = [call EXCEPT ![c] =
           Settled(@, @.response[1], getWeather_catch(ReadEnvelope(@.response[1].body)))]
    /\ UNCHANGED <<client, thrown, requested>>

\* getHistorical up to its first await.
getHistorical(c, params) ==
    /\ client.state = "ready"
    /\ call[c].pc = "idle"
    /\ LET queryParams == HistoricalQueryParams(params, client.defaultUnits[1])
       IN call' = [call EXCEPT ![c] =
              [pc |-> "fetch", op |-> "getHistorical", params |-> Some(params),
               request |-> Some(HistoricalRequest(queryParams, client.apiKey[1])),
               response |-> None, outcome |-> None]]
    /\ requested' = TRUE
    /\ UNCHANGED <<client, thrown>>

\* getHistorical resumes after `await fetch(...)`.
getHistorical_fetchSettled(c, r) ==
    /\ call[c].pc = "fetch"
    /\ call[c].op = "getHistorical"
    /\ call' = [call EXCEPT ![c] =
           IF r.kind = "rejected"
           THEN Settled(@, r, getHistorical_catch(Throw(r.error[1])))
           ELSE IF ~ResponseOk(r)
           THEN Settled(@, r, getHistorical_catch(Throw(HistoricalNotOk(r))))
           ELSE [@ EXCEPT !.pc = "json", !.response = Some(r)]]
    /\ UNCHANGED <<client, thrown, requested>>

\* getHistorical resumes after `await response.json()`.
getHistorical_jsonSettled(c) ==
    /\ call[c].pc = "json"
    /\ call[c].op = "getHistorical"
    /\ call' = [call EXCEPT ![c] =
           Settled(@, @.response[1], getHistorical_catch(ReadEnvelope(@.response[1].body)))]
    /\ UNCHANGED <<client, thrown, requested>>

\* The caller's `await weatherXu.getWeather(...)` completes (or its catch
\* runs); the caller may then issue another call.
awaitReturns(c) ==
    /\ call[c].pc = "done"
    /\ call' = [call EXCEPT ![c] = IdleCall]
    /\ UNCHANGED <<client, thrown, requested>>

Next ==
    \/ \E config \in Configs : constructor(config)
    \/ \E c \in Calls, params \in WeatherParamsSet : getWeather(c, params)
    \/ \E c \in Calls, r \in FetchResults : getWeather_fetchSettled(c, r)
    \/ \E c \in Calls : getWeather_jsonSettled(c)
    \/ \E c \in Calls, params \in HistoricalParamsSet : getHistorical(c, params)
    \/ \E c \in Calls, r \in FetchResults : getHistorical_fetchSettled(c, r)
    \/ \E c \in Calls : getHistorical_jsonSettled(c)
    \/ \E c \in Calls : awaitReturns(c)

Spec == Init /\ [][Next]_vars

\* =================================================================== claims

\* What the receiving server sees: the application/x-www-form-urlencoded
\* parser applied to the query string on the wire.
SplitOn(s, ch) ==
    LET seps == {i \in 1..Len(s) : s[i] = ch}
        n == Cardinality(seps)
        Pos(k) == IF k = 0 THEN 0
                  ELSE IF k = n + 1 THEN Len(s) + 1
                  ELSE CHOOSE i \in seps : Cardinality({j \in seps : j < i}) = k - 1
    IN [k \in 1..(n + 1) |-> SubSeq(s, Pos(k - 1) + 1, Pos(k) - 1)]

PercentChar(a, b) ==
    CASE <<a, b>> = <<"2", "C">> -> ","
      [] <<a, b>> = <<"2", "6">> -> "&"
      [] <<a, b>> = <<"3", "D">> -> "="
      [] <<a, b>> = <<"2", "5">> -> "%"
      [] <<a, b>> = <<"2", "B">> -> "+"
      [] OTHER -> "?"

RECURSIVE DecodeComponent(_)
DecodeComponent(s) ==
    IF s = <<>> THEN <<>>
    ELSE IF Head(s) = "+" THEN <<" ">> \o DecodeComponent(Tail(s))
    ELSE IF Head(s) = "%" /\ Len(s) >= 3
         THEN <<PercentChar(s[2], s[3])>> \o DecodeComponent(SubSeq(s, 4, Len(s)))
    ELSE <<Head(s)>> \o DecodeComponent(Tail(s))

ParseQuery(q) ==
    IF q = <<>> THEN <<>>
    ELSE LET segs == SplitOn(q, "&")
         IN [i \in 1..Len(segs) |->
                LET kv == SplitOn(segs[i], "=")
                IN <<DecodeComponent(kv[1]),
                     IF Len(kv) >= 2 THEN DecodeComponent(kv[2]) ELSE <<>> >>]

ParamNames(q) ==
    LET pq == ParseQuery(q) IN [i \in 1..Len(pq) |-> pq[i][1]]

\* The values the query carries under a name, in order.
ParamValues(q, name) ==
    LET pq == ParseQuery(q)
        sel == SelectSeq(pq, LAMBDA e : e[1] = name)
    IN [i \in 1..Len(sel) |-> sel[i][2]]

\* The number (in tenths) a decimal string denotes.
DigitValue(ch) == CHOOSE d \in 0..9 : DigitChar[d + 1] = ch

RECURSIVE DigitsValue(_)
DigitsValue(s) ==
    IF s = <<>> THEN 0 ELSE 10 * DigitsValue(SubSeq(s, 1, Len(s) - 1)) + DigitValue(s[Len(s)])

StringToNumber(s) ==
    LET neg == s # <<>> /\ Head(s) = "-"
        body == IF neg THEN Tail(s) ELSE s
        halves == SplitOn(body, ".")
        whole == DigitsValue(halves[1]) * 10
        frac == IF Len(halves) >= 2 THEN DigitsValue(halves[2]) ELSE 0
    IN IF neg THEN -(whole + frac) ELSE whole + frac

\* The text of a character sequence.
RECURSIVE Text(_)
Text(s) == IF s = <<>> THEN "" ELSE Head(s) \o Text(Tail(s))

Done(c) == call[c].pc = "done"
TheRequest(c) == call[c].request[1]
TheParams(c) == call[c].params[1]
TheResponse(c) == call[c].response[1]
TheOutcome(c) == call[c].outcome[1]
Is2xx(r) == r.kind = "response" /\ r.status \in 200..299
NameLat == <<"l", "a", "t">>
NameLon == <<"l", "o", "n">>
NameUnits == <<"u", "n", "i", "t", "s">>
NameParts == <<"p", "a", "r", "t", "s">>
NameStart == <<"s", "t", "a", "r", "t">>
NameEnd == <<"e", "n", "d">>

\* C1: constructing with a missing or empty apiKey fails with the
\* WeatherXuError "API key is required" (status and code unset) and no
\* outbound request has been issued; with a non-empty apiKey it succeeds.
C1_ApiKeyRequired ==
    /\ client.state = "new" => ~requested /\ thrown = None
    /\ client.state = "failed" =>
          /\ client.config[1].apiKey \in {None, Some("")}
          /\ thrown = Some([name |-> "WeatherXuError", message |-> "API key is required",
                            status |-> None, code |-> None])
          /\ ~requested
          /\ \A c \in Calls : call[c].pc = "idle"
    /\ client.state = "ready" =>
          /\ client.config[1].apiKey \notin {None, Some("")}
          /\ client.apiKey = client.config[1].apiKey
          /\ thrown = None

C1_Witness ==
    /\ client.state = "failed"
    /\ client.config[1].apiKey = Some("")
    /\ thrown # None

\* C2: a finished call has either resolved with the response body or
\* rejected with a WeatherXuError, never both and never another error type,
\* whatever the transport answered.
C2_TwoOutcomes ==
    \A c \in Calls :
        /\ ~Done(c) => call[c].outcome = None
        /\ Done(c) =>
              /\ TheOutcome(c).kind \in {"resolved", "rejected"}
              /\ TheOutcome(c).kind = "resolved" =>
                    /\ TheOutcome(c).error = None
                    /\ TheOutcome(c).value = Some(TheResponse(c).body)
              /\ TheOutcome(c).kind = "rejected" =>
                    /\ TheOutcome(c).value = None
                    /\ TheOutcome(c).error # None
                    /\ TheOutcome(c).error[1].name = "WeatherXuError"

C2_Witness ==
    \E c \in Calls :
        /\ Done(c)
        /\ call[c].op = "getWeather"
        /\ TheResponse(c).kind = "rejected"
        /\ TheOutcome(c).kind = "rejected"

\* C3: a response with a non-2xx status s rejects the call with a
\* WeatherXuError whose status is s and whose code is unset, whatever the
\* body holds.
C3_HttpStatus ==
    \A c \in Calls :
        (Done(c) /\ TheResponse(c).kind = "response" /\ ~Is2xx(TheResponse(c))) =>
            /\ TheOutcome(c).kind = "rejected"
            /\ TheOutcome(c).error[1].name = "WeatherXuError"
            /\ TheOutcome(c).error[1].status = Some(TheResponse(c).status)
            /\ TheOutcome(c).error[1].code = None

C3_Witness ==
    \E c \in Calls :
        /\ Done(c)
        /\ call[c].op = "getWeather"
        /\ TheResponse(c).status = 500
        /\ TheResponse(c).body.success = Some(TRUE)
        /\ TheOutcome(c).error[1].status = Some(500)

\* C4: a 2xx response whose body has success false and error {message,
\* statusCode} rejects the call with a WeatherXuError carrying that message,
\* that statusCode as its code, and no status.
C4_ApplicationError ==
    \A c \in Calls :
        (/\ Done(c)
         /\ Is2xx(TheResponse(c))
         /\ TheResponse(c).body.kind = "object"
         /\ TheResponse(c).body.success = Some(FALSE)
         /\ TheResponse(c).body.error # None
         /\ TheResponse(c).body.error[1].message # None) =>
            /\ TheOutcome(c).kind = "rejected"
            /\ TheOutcome(c).error[1].name = "WeatherXuError"
            /\ TheOutcome(c).error[1].message = TheResponse(c).body.error[1].message[1]
            /\ TheOutcome(c).error[1].code = TheResponse(c).body.error[1].statusCode
            /\ TheOutcome(c).error[1].status = None

C4_Witness ==
    \E c \in Calls :
        /\ Done(c)
        /\ TheResponse(c).status = 200
        /\ TheResponse(c).body.error = Some([message |-> Some("bad key"), statusCode |-> Some("401")])
        /\ TheOutcome(c).error[1].message = "bad key"
        /\ TheOutcome(c).error[1].code = Some("401")

\* C5: a call resolves exactly when the response is 2xx and its parsed body
\* has success true, and it then resolves with that body, unchanged.
C5_SuccessBody ==
    \A c \in Calls :
        Done(c) =>
            /\ TheOutcome(c).kind = "resolved" <=>
                  (/\ Is2xx(TheResponse(c))
                   /\ TheResponse(c).body.kind = "object"
                   /\ TheResponse(c).body.success = Some(TRUE))
            /\ TheOutcome(c).kind = "resolved" =>
                  /\ TheOutcome(c).value = Some(TheResponse(c).body)
                  /\ TheOutcome(c).error = None

C5_Witness ==
    \E c \in Calls :
        /\ Done(c)
        /\ call[c].op = "getHistorical"
        /\ TheOutcome(c).kind = "resolved"
        /\ TheOutcome(c).value[1].data = Some("forecast")

HasRequest(c) == call[c].request # None

\* C6: the query carries lat and lon as the decimal strings of the given
\* numbers and one units parameter: the call's units when given, otherwise
\* the client's default, which stays the units given at construction (or
\* metric) whatever the calls override.
C6_EffectiveUnits ==
    /\ client.state = "ready" =>
          client.defaultUnits =
              Some(IF client.config[1].units = None THEN metric ELSE client.config[1].units[1])
    /\ \A c \in Calls :
          HasRequest(c) =>
              LET q == TheRequest(c).query
                  p == TheParams(c)
              IN /\ Len(ParamValues(q, NameLat)) = 1
                 /\ StringToNumber(ParamValues(q, NameLat)[1]) = p.lat
                 /\ Len(ParamValues(q, NameLon)) = 1
                 /\ StringToNumber(ParamValues(q, NameLon)[1]) = p.lon
                 /\ ParamValues(q, NameUnits) =
                        << IF p.units # None THEN p.units[1] ELSE client.defaultUnits[1] >>

C6_Witness ==
    \E c, d \in Calls :
        /\ client.defaultUnits = Some(metric)
        /\ client.config[1].units = None
        /\ call[c].pc = "json"
        /\ TheParams(c).units = Some(imperial)
        /\ Text(ParamValues(TheRequest(c).query, NameUnits)[1]) = "imperial"
        /\ call[d].pc = "fetch"
        /\ TheParams(d).units = None
        /\ Text(ParamValues(TheRequest(d).query, NameUnits)[1]) = "metric"
        /\ Text(ParamValues(TheRequest(d).query, NameLat)[1]) = "40.7"
        /\ Text(ParamValues(TheRequest(d).query, NameLon)[1]) = "-74"

\* C7: getWeather sends a parts parameter if and only if parts was given
\* (the empty list included), exactly once, and its value is the given
\* section names joined by commas in the order given.
\* The value is what the server decodes: on the wire URLSearchParams writes
\* the comma of the joined list as %2C.
C7_PartsParameter ==
    \A c \in Calls :
        (HasRequest(c) /\ call[c].op = "getWeather") =>
            LET vals == ParamValues(TheRequest(c).query, NameParts)
                parts == TheParams(c).parts
            IN IF parts = None THEN vals = <<>>
               ELSE /\ Len(vals) = 1
                    /\ IF parts[1] = <<>> THEN vals[1] = <<>>
                       ELSE SplitOn(vals[1], ",") = parts[1]

C7_Witness ==
    \E c \in Calls :
        /\ call[c].pc = "fetch"
        /\ call[c].op = "getWeather"
        /\ TheParams(c).parts = Some(<<currently, daily>>)
        /\ Text(ParamValues(TheRequest(c).query, NameParts)[1]) = "currently,daily"
        /\ Text(TheRequest(c).query) = "lat=40.7&lon=-74&units=metric&parts=currently%2Cdaily"

\* C8: getHistorical sends exactly lat, lon, start, end and units (never
\* parts), start and end as given even when end is before start, to the
\* historical host's /v1/history; getWeather goes to the weather host's
\* /v1/weather.
C8_HistoricalRequest ==
    \A c \in Calls :
        HasRequest(c) =>
            LET q == TheRequest(c).query
                p == TheParams(c)
                names == ParamNames(q)
            IN /\ call[c].op = "getHistorical" =>
                    /\ Len(names) = 5
                    /\ {names[i] : i \in 1..Len(names)}
                           = {NameLat, NameLon, NameStart, NameEnd, NameUnits}
                    /\ StringToNumber(ParamValues(q, NameStart)[1]) = p.start
                    /\ StringToNumber(ParamValues(q, NameEnd)[1]) = p.end
                    /\ TheRequest(c).base \o TheRequest(c).path
                           = "https://historical.weatherxu.com/v1/history"
               /\ call[c].op = "getWeather" =>
                    /\ {names[i] : i \in 1..Len(names)}
                           \subseteq {NameLat, NameLon, NameUnits, NameParts}
                    /\ TheRequest(c).base \o TheRequest(c).path
                           = "https://api.weatherxu.com/v1/weather"

C8_Witness ==
    \E c \in Calls :
        /\ call[c].pc = "fetch"
        /\ call[c].op = "getHistorical"
        /\ TheParams(c).end < TheParams(c).start
        /\ Text(TheRequest(c).query) = "lat=-90.5&lon=122.5&start=180&end=170&units=imperial"
        /\ TheRequest(c).base = historicalBaseUrl

\* C9: concurrent calls do not interfere. Every step of a call leaves the
\* other call and the constructed client untouched; two calls of the same
\* operation with the same arguments send the same request, and two with the
\* same transport answer end the same way, however they interleave.
C9_Isolated ==
    /\ client.state = "ready" => client' = client
    /\ \A c, d \in Calls : (c # d /\ call'[c] # call[c]) => call'[d] = call[d]

C9_Deterministic ==
    \A c, d \in Calls :
        /\ (/\ HasRequest(c) /\ HasRequest(d)
            /\ call[c].op = call[d].op
            /\ call[c].params = call[d].params) => call[c].request = call[d].request
        /\ (/\ Done(c) /\ Done(d)
            /\ call[c].op = call[d].op
            /\ call[c].response = call[d].response) => call[c].outcome = call[d].outcome
        /\ HasRequest(c) => TheRequest(c).headers.xApiKey = client.apiKey[1]

\* C9: under every interleaving of two calls on one client, C9_Deterministic
\* holds in every state and every step satisfies C9_Isolated.
C9_NoInterference == [](C9_Deterministic) /\ [][C9_Isolated]_vars

C9_Witness ==
    /\ call[1].pc = "json"
    /\ call[1].op = "getWeather"
    /\ TheParams(1).units = Some(imperial)
    /\ call[2].pc = "fetch"
    /\ call[2].op = "getHistorical"
    /\ TheParams(2).units = None
    /\ Text(ParamValues(TheRequest(2).query, NameUnits)[1]) = "metric"

\* C10: a WeatherXuError raised inside the operation reaches the caller as
\* it was raised; a network failure, malformed JSON or a success-false body
\* without an error object reaches the caller as a WeatherXuError whose
\* message is the operation's prefix followed by the underlying message,
\* with no status and no code.
Prefix(c) ==
    IF call[c].op = "getWeather" THEN "Failed to fetch weather data: "
    ELSE "Failed to fetch historical data: "

NotOkPrefix(c) ==
    IF call[c].op = "getWeather" THEN "Weather API request failed: "
    ELSE "Historical API request failed: "

Wrapped(c, underlying) ==
    [name |-> "WeatherXuError", message |-> Prefix(c) \o underlying,
     status |-> None, code |-> None]

C10_WrapOrPropagate ==
    \A c \in Calls :
        Done(c) =>
            LET r == TheResponse(c)
                e == TheOutcome(c).error
            IN /\ r.kind = "rejected" => e = Some(Wrapped(c, r.error[1].message))
               /\ (Is2xx(r) /\ r.body.kind = "invalid") =>
                      e = Some(Wrapped(c, "Unexpected token < in JSON at position 0"))
               /\ (Is2xx(r) /\ r.body.kind = "object"
                     /\ r.body.success = Some(FALSE) /\ r.body.error = None) =>
                      e = Some(Wrapped(c,
                          "Cannot destructure property 'message' of 'result.error' as it is undefined."))
               /\ (r.kind = "response" /\ ~Is2xx(r)) =>
                      e = Some([name |-> "WeatherXuError",
                                message |-> NotOkPrefix(c) \o r.statusText,
                                status |-> Some(r.status), code |-> None])
               /\ (Is2xx(r) /\ r.body.kind = "object"
                     /\ r.body.success = Some(FALSE) /\ r.body.error # None) =>
                      e = Some([name |-> "WeatherXuError",
                                message |-> IF r.body.error[1].message = None THEN ""
                                            ELSE r.body.error[1].message[1],
                                status |-> None, code |-> r.body.error[1].statusCode])

C10_Witness ==
    \E c \in Calls :
        /\ Done(c)
        /\ call[c].op = "getHistorical"
        /\ TheResponse(c).status = 200
        /\ TheResponse(c).body.kind = "invalid"
        /\ TheOutcome(c).error[1].message
               = "Failed to fetch historical data: Unexpected token < in JSON at position 0"

====
